---- MODULE Spec2Model ----
(***************************************************************************)
(* Model of the Pogo history view of the pogo-vcs VS Code extension:       *)
(*   - the layout pass PogoHistoryViewProvider._getGraphHtml               *)
(*     (src/src/pogoHistoryView.ts), a pure function of a graph snapshot;  *)
(*   - the provider's refresh / auto-refresh timer / click handling and    *)
(*     the script that runs inside the rendered webview.                   *)
(*                                                                         *)
(* Specifications:                                                         *)
(*   SpecLayout  Init draws one graph snapshot from a bounded set, the     *)
(*               only action applies _getHtmlForWebview to it.             *)
(*   SpecPasses  layout passes over a sequence of snapshots.               *)
(*   Spec        the history provider and its webview as a state machine;  *)
(*               FairSpec adds the fairness of its timer and its fetches.  *)
(*   SpecFetch   the refresh cycle of the history provider with the two    *)
(*               timeouts of the `pogo log` process and with dispose().    *)
(*   SpecSCM     the SCM provider (src/src/pogoSCM.ts): input box,         *)
(*               description loads and description updates.                *)
(***************************************************************************)
EXTENDS Integers, Sequences, FiniteSets, TLC

(***************************************************************************)
(* Bounds of the model                                                     *)
(***************************************************************************)
\* largest grid column of a change
MaxCol == 1
\* largest grid row of a change
MaxRow == 1

(***************************************************************************)
(* Program constants                                                       *)
(***************************************************************************)
xScale == 8
yScale == 20
radius == 4
\* the literal 8 subtracted in topPosition
halfRowHeight == 8

conflictColor == "var(--vscode-errorForeground)"
normalColor == "var(--vscode-foreground)"
backgroundColor == "var(--vscode-editor-background)"

(***************************************************************************)
(* Input data: interface Change, interface ChangesGraph                    *)
(***************************************************************************)
\* change names that may occur in a snapshot; "~" is the working node
Names == {"~", "ka", "kb"}
\* a name that no change of any snapshot carries
MissingName == "zz"

\* unique_prefix / unique_suffix of a name: prefix + suffix = name
PrefixOf(n) == IF n = "~" THEN "~" ELSE "k"
SuffixOf(n) == IF n = "ka" THEN "a" ELSE IF n = "kb" THEN "b" ELSE ""

\* conflict_files: string[] | null
NullFiles == [null |-> TRUE, files |-> <<>>]
SomeFiles(fs) == [null |-> FALSE, files |-> fs]
ConflictFilesValues == {NullFiles, SomeFiles(<<>>), SomeFiles(<<"f.txt">>)}

DescriptionValues == {"", "fix"}

Change(n, d, cf, co, cx, cy) ==
    [name |-> n, unique_prefix |-> PrefixOf(n), unique_suffix |-> SuffixOf(n),
     description |-> d, conflict_files |-> cf, is_checked_out |-> co,
     x |-> cx, y |-> cy]

\* changes with every combination of description, conflict and checkout state
Changes ==
    {Change(n, d, cf, co, cx, cy) :
        n \in Names, d \in DescriptionValues, cf \in ConflictFilesValues,
        co \in BOOLEAN, cx \in 0..MaxCol, cy \in 0..MaxRow}

\* changes that differ in name and grid position only
PlainChanges ==
    {Change(n, "", NullFiles, FALSE, cx, cy) :
        n \in Names, cx \in 0..MaxCol, cy \in 0..MaxRow}

\* change lists of at most two changes; names are unique within a snapshot
ListsOf(S) ==
    {<<>>} \cup {<<c>> : c \in S}
           \cup {p \in S \X S : p[1].name # p[2].name}

\* adjacency lists of at most two edges; an edge may name a missing change
EdgeNames == Names \cup {MissingName}
AdjacencyLists ==
    {<<>>} \cup {<<e>> : e \in EdgeNames \X EdgeNames}
           \cup {<<e1, e2>> : e1 \in EdgeNames \X EdgeNames, e2 \in EdgeNames \X EdgeNames}

\* a parsed ChangesGraph; JSON.parse may yield an object without a
\* changes list and/or without an adjacency_list (e.g. "{}")
Graph(hc, cs, ha, al) ==
    [hasChanges |-> hc, changes |-> cs, hasAdjacency |-> ha, adjacency_list |-> al]

EmptyObject == Graph(FALSE, <<>>, FALSE, <<>>)

\* The snapshots handed to the layout pass.  The edge markup reads only the
\* names and positions of the changes, the node and panel markup reads no
\* edge: the snapshots are those that vary the edges over plain changes
\* and those that vary every field of the changes and carry no edge.
IsLayoutInput(g) ==
    \/ \E cs \in ListsOf(PlainChanges), al \in AdjacencyLists :
            g = Graph(TRUE, cs, TRUE, al)
    \/ \E cs \in ListsOf(Changes), ha \in BOOLEAN :
            g = Graph(TRUE, cs, ha, <<>>)
    \/ \E e \in EdgeNames \X EdgeNames :
            g = Graph(FALSE, <<>>, TRUE, <<e>>)
    \/ g = EmptyObject

(***************************************************************************)
(* The layout pass: _getGraphHtml                                          *)
(***************************************************************************)
\* Math.sign
Sign(n) == IF n > 0 THEN 1 ELSE IF n < 0 THEN -1 ELSE 0

\* Math.max(...values, 0)
RECURSIVE MaxWithZero(_)
MaxWithZero(vs) ==
    IF vs = <<>> THEN 0
    ELSE LET rest == MaxWithZero(Tail(vs))
         IN  IF Head(vs) > rest THEN Head(vs) ELSE rest

\* Array.prototype.find(c => c.name === name): index of the first match, 0 if none
Find(cs, name) ==
    IF \E i \in DOMAIN cs : cs[i].name = name
    THEN CHOOSE i \in DOMAIN cs :
            /\ cs[i].name = name
            /\ \A j \in DOMAIN cs : cs[j].name = name => i <= j
    ELSE 0

\* an element of the edges array: "" (NoPath), a <line> or a <path>
NoPath == [tag |-> "", x1 |-> 0, y1 |-> 0, x2 |-> 0, y2 |-> 0, d |-> <<>>]
Line(px1, py1, px2, py2) ==
    [tag |-> "line", x1 |-> px1, y1 |-> py1, x2 |-> px2, y2 |-> py2, d |-> <<>>]
\* path data commands M, L and A (A rx ry 0 0 sweep x y)
Cmd(op, px, py) == [op |-> op, x |-> px, y |-> py, r |-> 0, sweep |-> 0]
Arc(rr, sw, px, py) == [op |-> "A", x |-> px, y |-> py, r |-> rr, sweep |-> sw]
Path(px1, py1, px2, py2, data) ==
    [tag |-> "path", x1 |-> px1, y1 |-> py1, x2 |-> px2, y2 |-> py2, d |-> data]

\* Canonicalize without the swap of lines 253-256
CanonicalizeNoSwap(p) == p

\* lines 253-256: swap the endpoints when y2 > y1
Canonicalize(p) ==
    IF p.y2 > p.y1
    THEN [x1 |-> p.x2, y1 |-> p.y2, x2 |-> p.x1, y2 |-> p.y1]
    ELSE p

\* RoutePath without the straight-line case of lines 259-261
RoutePathAlwaysArc(p) ==
    LET deltaX == p.x2 - p.x1
        deltaY == p.y2 - p.y1
        sweep == IF (deltaX > 0 /\ deltaY < 0) \/ (deltaX < 0 /\ deltaY > 0)
                 THEN 0 ELSE 1
    IN  Path(p.x1, p.y1, p.x2, p.y2,
             << Cmd("M", p.x1, p.y1),
                Cmd("L", p.x2 - Sign(deltaX) * radius, p.y1),
                Arc(radius, sweep, p.x2, p.y1 + Sign(deltaY) * radius),
                Cmd("L", p.x2, p.y2) >>)

\* RoutePath with the two sweep values of line 277 exchanged
RoutePathSweepFlipped(p) ==
    IF p.x1 = p.x2
    THEN Line(p.x1, p.y1, p.x2, p.y2)
    ELSE LET deltaX == p.x2 - p.x1
             deltaY == p.y2 - p.y1
             sweep == IF (deltaX > 0 /\ deltaY < 0) \/ (deltaX < 0 /\ deltaY > 0)
                      THEN 1 ELSE 0
         IN  Path(p.x1, p.y1, p.x2, p.y2,
                  << Cmd("M", p.x1, p.y1),
                     Cmd("L", p.x2 - Sign(deltaX) * radius, p.y1),
                     Arc(radius, sweep, p.x2, p.y1 + Sign(deltaY) * radius),
                     Cmd("L", p.x2, p.y2) >>)

\* lines 258-280: the path between two canonicalized pixel endpoints
RoutePath(p) ==
    IF p.x1 = p.x2
    THEN Line(p.x1, p.y1, p.x2, p.y2)
    ELSE LET deltaX == p.x2 - p.x1
             deltaY == p.y2 - p.y1
             arcStartX == p.x2 - Sign(deltaX) * radius
             arcStartY == p.y1
             arcEndX == p.x2
             arcEndY == p.y1 + Sign(deltaY) * radius
             sweep == IF (deltaX > 0 /\ deltaY < 0) \/ (deltaX < 0 /\ deltaY > 0)
                      THEN 0 ELSE 1
         IN  Path(p.x1, p.y1, p.x2, p.y2,
                  << Cmd("M", p.x1, p.y1),
                     Cmd("L", arcStartX, arcStartY),
                     Arc(radius, sweep, arcEndX, arcEndY),
                     Cmd("L", p.x2, p.y2) >>)

\* EdgeHtml that draws an edge with a missing endpoint from the origin
\* instead of returning "" at line 246
EdgeHtmlMissingAtOrigin(cs, e) ==
    LET fromChange == Find(cs, e[1])
        toChange == Find(cs, e[2])
    IN  IF fromChange = 0 \/ toChange = 0
        THEN Line(0, 0, 0, 0)
        ELSE RoutePath(Canonicalize(
                [x1 |-> (cs[fromChange].x + 1) * xScale,
                 y1 |-> (cs[fromChange].y + 1) * yScale,
                 x2 |-> (cs[toChange].x + 1) * xScale,
                 y2 |-> (cs[toChange].y + 1) * yScale]))

\* lines 243-281: the callback of adjacency_list.map for one edge [from, to]
EdgeHtml(cs, e) ==
    LET fromChange == Find(cs, e[1])
        toChange == Find(cs, e[2])
    IN  IF fromChange = 0 \/ toChange = 0
        THEN NoPath
        ELSE RoutePath(Canonicalize(
                [x1 |-> (cs[fromChange].x + 1) * xScale,
                 y1 |-> (cs[fromChange].y + 1) * yScale,
                 x2 |-> (cs[toChange].x + 1) * xScale,
                 y2 |-> (cs[toChange].y + 1) * yScale]))

\* Array.prototype.join(""): the empty strings vanish from the markup
Join(parts) == SelectSeq(parts, LAMBDA p : p.tag # "")

\* lines 243, 281
Edges(g) ==
    IF g.hasAdjacency
    THEN Join([i \in DOMAIN g.adjacency_list |->
                    EdgeHtml(g.changes, g.adjacency_list[i])])
    ELSE <<>>

\* NodeColor without the length test of line 288: an empty list counts as
\* a conflict
NodeColorAnyList(change) ==
    IF ~change.conflict_files.null THEN conflictColor ELSE normalColor

\* lines 288-291
NodeColor(change) ==
    IF ~change.conflict_files.null /\ Len(change.conflict_files.files) > 0
    THEN conflictColor
    ELSE normalColor

\* lines 294-295
FillColor(change) ==
    IF change.is_checked_out THEN NodeColor(change) ELSE backgroundColor

\* line 296
StrokeColor(change) == NodeColor(change)

\* NodeHtml without the +1 of lines 284-285
NodeHtmlNoMargin(change) ==
    [cx |-> change.x * xScale,
     cy |-> change.y * yScale,
     fill |-> FillColor(change),
     stroke |-> StrokeColor(change),
     dataChangeName |-> change.name]

\* lines 283-299: one <circle>
NodeHtml(change) ==
    [cx |-> (change.x + 1) * xScale,
     cy |-> (change.y + 1) * yScale,
     fill |-> FillColor(change),
     stroke |-> StrokeColor(change),
     dataChangeName |-> change.name]

\* lines 304-306: the description cell of an ordinary entry
DescriptionHtml(change) ==
    IF change.description # ""
    THEN [kind |-> "text", text |-> change.description]
    ELSE [kind |-> "placeholder", text |-> "(no description)"]

\* IsClickable that ignores is_checked_out
IsClickableAlways(change) == TRUE

\* lines 321-324: handlers are attached to clickable entries only
IsClickable(change) == ~change.is_checked_out

\* ChangeInfoHtml without the "~" case of lines 308-314
ChangeInfoHtmlNoSentinel(change) ==
    [top |-> (change.y + 1) * yScale - halfRowHeight,
     nameHtml |-> <<change.unique_prefix, change.unique_suffix>>,
     description |-> DescriptionHtml(change),
     clickable |-> IsClickable(change),
     onclick |-> IF IsClickable(change) THEN {change.name} ELSE {},
     onmouseenter |-> IF IsClickable(change) THEN {change.name} ELSE {},
     onmouseleave |-> IF IsClickable(change) THEN {change.name} ELSE {},
     dataChangeName |-> {change.name}]

\* ChangeInfoHtml with topPosition at the node's pixel row, without the -8
\* of line 303
ChangeInfoHtmlTopAtNode(change) ==
    [top |-> (change.y + 1) * yScale,
     nameHtml |-> IF change.name = "~" THEN <<"~">>
                  ELSE <<change.unique_prefix, change.unique_suffix>>,
     description |-> IF change.name = "~" THEN [kind |-> "nbsp", text |-> ""]
                     ELSE DescriptionHtml(change),
     clickable |-> change.name # "~" /\ IsClickable(change),
     onclick |-> IF change.name # "~" /\ IsClickable(change) THEN {change.name} ELSE {},
     onmouseenter |-> IF change.name # "~" /\ IsClickable(change) THEN {change.name} ELSE {},
     onmouseleave |-> IF change.name # "~" /\ IsClickable(change) THEN {change.name} ELSE {},
     dataChangeName |-> IF change.name = "~" THEN {} ELSE {change.name}]

\* lines 302-333: one <div class="change-info">; the handler attributes are
\* the sets of names they pass to the script ({} when the attribute is absent)
ChangeInfoHtml(change) ==
    IF change.name = "~"
    THEN [top |-> (change.y + 1) * yScale - halfRowHeight,
          nameHtml |-> <<"~">>,
          description |-> [kind |-> "nbsp", text |-> ""],
          clickable |-> FALSE,
          onclick |-> {}, onmouseenter |-> {}, onmouseleave |-> {},
          dataChangeName |-> {}]
    ELSE [top |-> (change.y + 1) * yScale - halfRowHeight,
          nameHtml |-> <<change.unique_prefix, change.unique_suffix>>,
          description |-> DescriptionHtml(change),
          clickable |-> IsClickable(change),
          onclick |-> IF IsClickable(change) THEN {change.name} ELSE {},
          onmouseenter |-> IF IsClickable(change) THEN {change.name} ELSE {},
          onmouseleave |-> IF IsClickable(change) THEN {change.name} ELSE {},
          dataChangeName |-> {change.name}]

\* a document assigned to webview.html, or the exception thrown instead
Page(k, err) ==
    [kind |-> k, error |-> err, svgWidth |-> 0, svgHeight |-> 0,
     edges |-> <<>>, nodes |-> <<>>, changeInfos |-> <<>>]

\* no document assigned yet
NoPage == Page("none", "")

\* lines 130-152
GetLoadingHtml == Page("loading", "")

\* graph.changes.map on an object without a changes list
TypeError == Page("TypeError", "")

\* lines 232-472
GetGraphHtml(g) ==
    IF ~g.hasChanges
    THEN TypeError
    ELSE LET maxX == MaxWithZero([i \in DOMAIN g.changes |-> g.changes[i].x])
             maxY == MaxWithZero([i \in DOMAIN g.changes |-> g.changes[i].y])
         IN  [kind |-> "graph", error |-> "",
              svgWidth |-> (maxX + 2) * xScale,
              svgHeight |-> (maxY + 2) * yScale,
              edges |-> Edges(g),
              nodes |-> [i \in DOMAIN g.changes |-> NodeHtml(g.changes[i])],
              changeInfos |-> [i \in DOMAIN g.changes |-> ChangeInfoHtml(g.changes[i])]]

\* what _getPogoGraph resolves with: { graph } or { error }
GraphData(g) == [error |-> "", graph |-> g]
ErrorData(msg) == [error |-> msg, graph |-> EmptyObject]

\* lines 154-187
GetHtmlForWebview(graphData) ==
    IF graphData.error # ""
    THEN Page("error", graphData.error)
    ELSE GetGraphHtml(graphData.graph)

(***************************************************************************)
(* _getPogoGraph: the outcome of `pogo log --json`                         *)
(***************************************************************************)
\* stdout of the command: empty, text that is not JSON, or the JSON of g
EmptyStdout == [kind |-> "empty", value |-> EmptyObject]
GarbageStdout == [kind |-> "garbage", value |-> EmptyObject]
JsonStdout(g) == [kind |-> "json", value |-> g]

\* what exec hands to its callback: (error, stdout, stderr)
ExecResult(err, out, errText) == [error |-> err, stdout |-> out, stderr |-> errText]

\* lines 196-219: the exec callback of _getPogoGraph
GetPogoGraph(r) ==
    IF r.error
    THEN ErrorData("Error executing pogo log")
    ELSE IF r.stderr # ""
    THEN ErrorData("Pogo error")
    ELSE IF r.stdout.kind = "garbage"
    THEN ErrorData("Error parsing JSON")
    ELSE IF r.stdout.kind = "empty"
    THEN GraphData(EmptyObject)
    ELSE GraphData(r.stdout.value)

\* The snapshots `pogo log` prints in Spec: the object without a changes
\* list, the empty graph, the working node alone with every combination of
\* its fields, and two graphs of three changes.
WorkingOnly(d, cf, co) ==
    Graph(TRUE, <<Change("~", d, cf, co, 0, 0)>>, TRUE, <<>>)

ThreeChangesA ==
    Graph(TRUE,
          << Change("~", "", NullFiles, TRUE, 0, 0),
             Change("ka", "fix", NullFiles, FALSE, 0, 1),
             Change("kb", "", SomeFiles(<<"f.txt">>), FALSE, 1, 1) >>,
          TRUE, << <<"~", "ka">>, <<"ka", "kb">>, <<"kb", "zz">> >>)

ThreeChangesB ==
    Graph(TRUE,
          << Change("~", "fix", NullFiles, FALSE, 0, 0),
             Change("ka", "fix", SomeFiles(<<"f.txt">>), TRUE, 1, 0),
             Change("kb", "", NullFiles, FALSE, 1, 1) >>,
          TRUE, << <<"ka", "~">>, <<"kb", "ka">> >>)

HostGraphs ==
    {EmptyObject, Graph(TRUE, <<>>, TRUE, <<>>), ThreeChangesA, ThreeChangesB}
    \cup {WorkingOnly(d, cf, co) :
            d \in DescriptionValues, cf \in ConflictFilesValues, co \in BOOLEAN}

ExecResults ==
    {ExecResult(TRUE, EmptyStdout, ""),
     ExecResult(FALSE, EmptyStdout, "warning"),
     ExecResult(FALSE, EmptyStdout, ""),
     ExecResult(FALSE, GarbageStdout, "")}
    \cup {ExecResult(FALSE, JsonStdout(g), "") : g \in HostGraphs}

(***************************************************************************)
(* The SCM input box: texts and String.prototype.trim                      *)
(***************************************************************************)
\* the descriptions pogo may store for the current change at activation
StoredValues == {"", "old"}
\* what the user may leave in the input box
TypedValues == {"", " ", "old", "new"}

\* String.prototype.trim on these texts
Trim(t) == IF t = " " THEN "" ELSE t

(***************************************************************************)
(* State                                                                   *)
(***************************************************************************)
VARIABLES
    graph,      \* the snapshot handed to the layout pass that produced html
    html,       \* webview.html: the document the view shows
    thrown,     \* TRUE once a layout pass has thrown
    view,       \* this._view is set
    autoRefreshTimer,   \* this._autoRefreshTimer: a timer handle, 0 = undefined
    liveTimers, \* the interval timers that are set and not cleared
    fetches,    \* the refresh calls awaiting _getPogoGraph, by start number
    started,    \* number of refresh calls that started a fetch
    shownBy,    \* start number of the refresh that wrote html, 0 = none
    highlighted,    \* the circles of the document with class "highlighted"
    lastEvent,  \* per panel entry of the document: the last pointer event
    clicked,    \* names of the clickable entries the user has clicked, in order
    posted,     \* change names of the messages the script has posted, in order
    inbox,      \* posted messages the host has not received yet
    editsStarted,   \* change names `pogo edit` was started for, in order
    edits,      \* number of `pogo edit` processes running
    editedAt,   \* value of started when a `pogo edit` last succeeded, -1 = never
    expired,    \* fetches in flight whose exec timeout (10000 ms) has expired
    killed,     \* fetches in flight whose execProcess.killed is true
    timedOut,   \* fetches in flight whose 12000 ms timer has run
    disposed,   \* dispose() has been called, and neither resolveWebviewView
                \* nor the refresh command has been called since
    passes,     \* the layout passes made so far: <<snapshot, output>>, in order
    inputBox,   \* _sourceControl.inputBox.value
    stored,     \* the description pogo stores for the current change
    isLoading,  \* PogoSCMProvider._isLoading
    loads,      \* number of `pogo info` processes running
    describes,  \* the descriptions of the `pogo describe` processes running
    outcome,    \* what the SCM provider handled last: an update or a load
    initialLoad \* the constructor's setTimeout(loadCurrentDescription, 0) is pending

layoutVars == <<graph, html, thrown>>
hostVars == <<view, autoRefreshTimer, liveTimers, fetches, started, shownBy,
              expired, killed, timedOut, disposed>>
documentVars == <<highlighted, lastEvent>>
clickVars == <<clicked, posted, inbox, editsStarted, edits, editedAt>>
scmVars == <<inputBox, stored, isLoading, loads, describes, outcome, initialLoad>>
vars == <<layoutVars, hostVars, documentVars, clickVars, passes, scmVars>>

\* the state of a provider right after construction
Constructed ==
    /\ view = FALSE
    /\ autoRefreshTimer = 0
    /\ liveTimers = {}
    /\ fetches = {}
    /\ started = 0
    /\ shownBy = 0
    /\ highlighted = {}
    /\ lastEvent = <<>>
    /\ clicked = <<>>
    /\ posted = <<>>
    /\ inbox = <<>>
    /\ editsStarted = <<>>
    /\ edits = 0
    /\ editedAt = -1
    /\ expired = {}
    /\ killed = {}
    /\ timedOut = {}
    /\ disposed = FALSE
    /\ passes = <<>>
    \* src/src/pogoSCM.ts lines 11-37: the SCM provider right after construction
    /\ inputBox = ""
    /\ isLoading = FALSE
    /\ loads = 0
    /\ describes = <<>>
    /\ outcome = "none"
    /\ initialLoad = TRUE

(***************************************************************************)
(* SpecLayout: one layout pass over one snapshot                           *)
(***************************************************************************)
InitLayout ==
    /\ IsLayoutInput(graph)
    /\ html = NoPage
    /\ thrown = FALSE
    /\ stored = ""
    /\ Constructed

\* this._view.webview.html = this._getHtmlForWebview({ graph })
Layout ==
    /\ html = NoPage
    /\ ~thrown
    /\ LET page == GetHtmlForWebview(GraphData(graph))
       IN  IF page.kind = "TypeError"
           THEN html' = html /\ thrown' = TRUE
           ELSE html' = page /\ thrown' = FALSE
    /\ UNCHANGED <<graph, hostVars, documentVars, clickVars, passes, scmVars>>

NextLayout == Layout

SpecLayout == InitLayout /\ [][NextLayout]_vars

(***************************************************************************)
(* Properties of the layout pass (checked under SpecLayout)                *)
(***************************************************************************)
\* the layout pass has run on the snapshot and returned a graph document
Rendered == html.kind = "graph"

\* the layout pass has run: it returned a document or it threw
LayoutDone == html # NoPage \/ thrown

\* edge number i of the snapshot names a change the snapshot does not hold
Dropped(i) ==
    \/ Find(graph.changes, graph.adjacency_list[i][1]) = 0
    \/ Find(graph.changes, graph.adjacency_list[i][2]) = 0

\* the changes edge number i resolves to (only for an edge that is not dropped)
FromOf(i) == graph.changes[Find(graph.changes, graph.adjacency_list[i][1])]
ToOf(i) == graph.changes[Find(graph.changes, graph.adjacency_list[i][2])]

\* the element of the rendered document that edge number i produced
\* (only for an edge that is not dropped)
PathOfEdge(i) ==
    html.edges[Cardinality({k \in 1..i : ~Dropped(k)})]

\* the larger / smaller of two numbers
Larger(a, b) == IF a > b THEN a ELSE b
Smaller(a, b) == IF a < b THEN a ELSE b

\* the arcs of a path element
ArcsOf(p) == {k \in DOMAIN p.d : p.d[k].op = "A"}

\* a path element is M, L (horizontal), A, L (vertical)
Orthogonal(p) ==
    /\ Len(p.d) = 4
    /\ p.d[1].op = "M" /\ p.d[2].op = "L" /\ p.d[3].op = "A" /\ p.d[4].op = "L"
    /\ p.d[2].y = p.d[1].y
    /\ p.d[4].x = p.d[3].x

\* C1: for two changes A and B of the snapshot on different rows, the
\* rendered path of edge (A,B) is identical to the rendered path of edge
\* (B,A), and it starts at the endpoint with the larger mapped y and ends at
\* the endpoint with the smaller mapped y.
C1_EdgeSymmetry ==
    (Rendered /\ graph.hasAdjacency) =>
        \A i, j \in DOMAIN graph.adjacency_list :
            ( /\ ~Dropped(i)
              /\ graph.adjacency_list[j] =
                    <<graph.adjacency_list[i][2], graph.adjacency_list[i][1]>>
              /\ FromOf(i).y # ToOf(i).y )
            => /\ PathOfEdge(i) = PathOfEdge(j)
               /\ PathOfEdge(i).y1 =
                    Larger((FromOf(i).y + 1) * yScale, (ToOf(i).y + 1) * yScale)
               /\ PathOfEdge(i).y2 =
                    Smaller((FromOf(i).y + 1) * yScale, (ToOf(i).y + 1) * yScale)

\* C1 witness: a rendered snapshot whose adjacency list holds an edge and its
\* reverse, between two changes on different rows and in different columns
C1_Witness ==
    /\ Rendered /\ graph.hasAdjacency
    /\ Len(graph.adjacency_list) = 2
    /\ ~Dropped(1)
    /\ graph.adjacency_list[2] = <<graph.adjacency_list[1][2], graph.adjacency_list[1][1]>>
    /\ FromOf(1).y < ToOf(1).y
    /\ FromOf(1).x # ToOf(1).x
    /\ Len(html.edges) = 2

\* C2: an edge whose endpoints both exist is rendered as a straight line
\* exactly when the endpoints have the same column, and otherwise as an
\* orthogonal path with exactly one arc.
C2_StraightIffSameColumn ==
    (Rendered /\ graph.hasAdjacency) =>
        \A i \in DOMAIN graph.adjacency_list :
            ~Dropped(i) =>
                IF FromOf(i).x = ToOf(i).x
                THEN /\ PathOfEdge(i).tag = "line"
                     /\ ArcsOf(PathOfEdge(i)) = {}
                ELSE /\ PathOfEdge(i).tag = "path"
                     /\ Cardinality(ArcsOf(PathOfEdge(i))) = 1
                     /\ Orthogonal(PathOfEdge(i))

\* C2 witness: a rendered snapshot with one straight edge between two changes
\* of one column, or rather: one edge between different columns rendered as a
\* path and one edge within a column rendered as a line
C2_Witness ==
    /\ Rendered /\ graph.hasAdjacency
    /\ Len(graph.adjacency_list) = 2
    /\ ~Dropped(1) /\ ~Dropped(2)
    /\ FromOf(1).x # ToOf(1).x
    /\ FromOf(2).x = ToOf(2).x
    /\ html.edges[1].tag = "path"
    /\ html.edges[2].tag = "line"

\* C3: over a snapshot that carries a changes list, every edge with a
\* missing endpoint produces no path and no error, every other edge produces
\* exactly one path: the number of rendered paths is the number of edges
\* minus the number of edges with a missing endpoint.
C3_DroppedEdges ==
    (LayoutDone /\ graph.hasChanges /\ graph.hasAdjacency) =>
        /\ ~thrown
        /\ Rendered
        /\ Len(html.edges) =
              Len(graph.adjacency_list)
                - Cardinality({i \in DOMAIN graph.adjacency_list : Dropped(i)})
        /\ \A k \in DOMAIN html.edges : html.edges[k].tag \in {"line", "path"}

\* C3 witness: two edges, the first with a missing endpoint, the second with
\* both endpoints present, rendered as one path
C3_Witness ==
    /\ Rendered /\ graph.hasAdjacency
    /\ Len(graph.adjacency_list) = 2
    /\ Dropped(1) /\ ~Dropped(2)
    /\ FromOf(2).name # ToOf(2).name
    /\ Len(html.edges) = 1

\* the conflict state the claim C8 speaks of
HasConflictFiles(change) ==
    change.conflict_files # NullFiles /\ change.conflict_files.files # <<>>

\* C8: every node is rendered with stroke = baseColor and fill = (baseColor
\* if checked out, else the background color), baseColor being the conflict
\* color exactly when conflict_files is non-null and non-empty; so the fill
\* differs from the background iff the change is checked out and the stroke
\* is the conflict color iff the change has conflict files.
C8_NodeColors ==
    Rendered =>
        \A i \in DOMAIN graph.changes :
            LET change == graph.changes[i]
                node == html.nodes[i]
                baseColor == IF HasConflictFiles(change) THEN conflictColor ELSE normalColor
            IN  /\ node.dataChangeName = change.name
                /\ node.stroke = baseColor
                /\ node.fill = (IF change.is_checked_out THEN baseColor ELSE backgroundColor)
                /\ (node.fill # backgroundColor) <=> change.is_checked_out
                /\ (node.stroke = conflictColor) <=> HasConflictFiles(change)

\* C8 witness: a rendered checked-out change with conflict files next to a
\* change with an empty conflict list that is not checked out
C8_Witness ==
    /\ Rendered
    /\ Len(graph.changes) = 2
    /\ graph.changes[1].is_checked_out /\ HasConflictFiles(graph.changes[1])
    /\ ~graph.changes[2].is_checked_out
    /\ graph.changes[2].conflict_files = SomeFiles(<<>>)
    /\ html.nodes[1].fill = conflictColor
    /\ html.nodes[2].fill = backgroundColor /\ html.nodes[2].stroke = normalColor

\* C10: a snapshot with zero changes, the snapshot without a changes list
\* included, produces a zero-sized canvas and an empty render model (no
\* nodes, no paths, no panel entries) and raises no error.
C10_EmptyGraph ==
    (LayoutDone /\ (~graph.hasChanges \/ graph.changes = <<>>)) =>
        /\ ~thrown
        /\ Rendered
        /\ html.svgWidth = 0 /\ html.svgHeight = 0
        /\ html.nodes = <<>> /\ html.edges = <<>> /\ html.changeInfos = <<>>

\* the largest of the values of a sequence of naturals, 0 for the empty one
Maximum(vs) ==
    IF vs = <<>> THEN 0
    ELSE CHOOSE m \in {vs[i] : i \in DOMAIN vs} : \A i \in DOMAIN vs : vs[i] <= m

\* C11: each node is drawn at ((column+1)*xScale, (row+1)*yScale), the canvas
\* is ((maxColumn+2)*xScale, (maxRow+2)*yScale), and so every node lies
\* strictly inside the canvas.
C11_NodesInsideCanvas ==
    Rendered =>
        LET maxColumn == Maximum([i \in DOMAIN graph.changes |-> graph.changes[i].x])
            maxRow == Maximum([i \in DOMAIN graph.changes |-> graph.changes[i].y])
        IN  /\ html.svgWidth = (maxColumn + 2) * xScale
            /\ html.svgHeight = (maxRow + 2) * yScale
            /\ Len(html.nodes) = Len(graph.changes)
            /\ \A i \in DOMAIN graph.changes :
                /\ html.nodes[i].cx = (graph.changes[i].x + 1) * xScale
                /\ html.nodes[i].cy = (graph.changes[i].y + 1) * yScale
                /\ 0 < html.nodes[i].cx /\ html.nodes[i].cx < html.svgWidth
                /\ 0 < html.nodes[i].cy /\ html.nodes[i].cy < html.svgHeight

\* C11 witness: a rendered snapshot with a change in column 0 and row 0 and
\* another in a larger column and a larger row
C11_Witness ==
    /\ Rendered
    /\ Len(graph.changes) = 2
    /\ graph.changes[1].x = 0 /\ graph.changes[1].y = 0
    /\ graph.changes[2].x > 0 /\ graph.changes[2].y > 0
    /\ html.nodes[2].cx = html.svgWidth - xScale
    /\ html.nodes[1].cy = yScale

\* the canonicalized endpoints of edge number i, in pixels: the path starts
\* at the endpoint with the larger y (at the edge's source on equal rows)
StartOf(i) == IF ToOf(i).y > FromOf(i).y THEN ToOf(i) ELSE FromOf(i)
EndOf(i) == IF ToOf(i).y > FromOf(i).y THEN FromOf(i) ELSE ToOf(i)
DeltaXOf(i) == (EndOf(i).x + 1) * xScale - (StartOf(i).x + 1) * xScale
DeltaYOf(i) == (EndOf(i).y + 1) * yScale - (StartOf(i).y + 1) * yScale

\* C12: in every orthogonal path the sweep flag of the arc is 0 when the
\* horizontal and the vertical delta between the canonicalized endpoints
\* have opposite signs and 1 when they have the same sign.
C12_SweepFollowsSigns ==
    (Rendered /\ graph.hasAdjacency) =>
        \A i \in DOMAIN graph.adjacency_list :
            (~Dropped(i) /\ FromOf(i).x # ToOf(i).x) =>
                /\ PathOfEdge(i).tag = "path"
                /\ \A k \in ArcsOf(PathOfEdge(i)) :
                    /\ (Sign(DeltaXOf(i)) * Sign(DeltaYOf(i)) = -1)
                            => PathOfEdge(i).d[k].sweep = 0
                    /\ (Sign(DeltaXOf(i)) * Sign(DeltaYOf(i)) = 1)
                            => PathOfEdge(i).d[k].sweep = 1

\* C12 witness: a rendered edge whose path runs to the right and upwards
\* (deltas of opposite signs), given from its upper to its lower endpoint
C12_Witness ==
    /\ Rendered /\ graph.hasAdjacency
    /\ Len(graph.adjacency_list) = 1
    /\ ~Dropped(1)
    /\ FromOf(1).y < ToOf(1).y
    /\ DeltaXOf(1) > 0 /\ DeltaYOf(1) < 0
    /\ html.edges[1].d[3].sweep = 0

\* the distance between two numbers
Distance(a, b) == IF a > b THEN a - b ELSE b - a

\* C13: every orthogonal path, for existing endpoints in different columns
\* (on the same row too), is a horizontal segment on the start row that stops
\* one arc radius short of the target column, a quarter-circle arc of that
\* radius that ends on the target column one radius away from the start row
\* towards the target, and a vertical segment from there to the target.
C13_OrthogonalGeometry ==
    (Rendered /\ graph.hasAdjacency) =>
        \A i \in DOMAIN graph.adjacency_list :
            (~Dropped(i) /\ FromOf(i).x # ToOf(i).x) =>
                LET p == PathOfEdge(i)
                    sx == (StartOf(i).x + 1) * xScale
                    sy == (StartOf(i).y + 1) * yScale
                    tx == (EndOf(i).x + 1) * xScale
                    ty == (EndOf(i).y + 1) * yScale
                IN  /\ Orthogonal(p)
                    /\ p.d[1].x = sx /\ p.d[1].y = sy
                    \* horizontal segment, one radius short of the target column
                    /\ p.d[2].y = sy
                    /\ Distance(p.d[2].x, tx) = radius
                    /\ Distance(sx, p.d[2].x) + radius = Distance(sx, tx)
                    \* quarter circle: its chord spans one radius each way
                    /\ p.d[3].r = radius
                    /\ p.d[3].x = tx
                    /\ Distance(p.d[3].y, sy) = radius
                    /\ Distance(p.d[3].y, sy) + Distance(p.d[3].y, ty) = Distance(sy, ty)
                    \* vertical segment to the target
                    /\ p.d[4].x = tx /\ p.d[4].y = ty

\* C14: the top offset of every panel entry is (row+1)*yScale - 8, the pixel
\* y of the change's own node minus 8, and two entries have the same top
\* offset exactly when their changes are on the same row.
C14_PanelFollowsRows ==
    Rendered =>
        /\ Len(html.changeInfos) = Len(graph.changes)
        /\ \A i \in DOMAIN graph.changes :
            /\ html.changeInfos[i].top = (graph.changes[i].y + 1) * yScale - 8
            /\ html.changeInfos[i].top = html.nodes[i].cy - 8
        /\ \A i, j \in DOMAIN graph.changes :
            (html.changeInfos[i].top = html.changeInfos[j].top)
                <=> (graph.changes[i].y = graph.changes[j].y)

\* C14 witness: a rendered snapshot with the "~" change and a change that is
\* checked out, on different rows
C14_Witness ==
    /\ Rendered
    /\ Len(graph.changes) = 2
    /\ graph.changes[1].name = "~"
    /\ graph.changes[2].is_checked_out
    /\ graph.changes[1].y < graph.changes[2].y
    /\ html.changeInfos[1].top < html.changeInfos[2].top


(***************************************************************************)
(* Spec: the provider, its timer, its fetches and the webview's script     *)
(***************************************************************************)
\* most refresh calls that start a fetch in one behaviour
MaxRefreshes == 2
\* most clicks on clickable entries in one behaviour
MaxClicks == 1
\* most interval timers alive at once
MaxTimers == 2

\* the view loads a document: a new DOM, no circle highlighted, no pointer
\* event seen yet by any of its panel entries
ShowPage(page, g) ==
    /\ html' = page
    /\ graph' = g
    /\ highlighted' = {}
    /\ lastEvent' = [j \in DOMAIN page.changeInfos |-> "none"]

\* lines 98-106 alone: setInterval without the clearInterval of lines 93-96
ResetAutoRefreshTimerNoClear ==
    LET free == {h \in 1..MaxTimers : h \notin liveTimers}
    IN  /\ free # {}
        /\ \E h \in free :
            /\ \A k \in free : h <= k
            /\ liveTimers' = liveTimers \cup {h}
            /\ autoRefreshTimer' = h

\* lines 92-107: clearInterval(old timer), then setInterval
ResetAutoRefreshTimer ==
    LET cleared == IF autoRefreshTimer # 0
                   THEN liveTimers \ {autoRefreshTimer}
                   ELSE liveTimers
        free == {h \in 1..MaxTimers : h \notin cleared}
    IN  /\ free # {}
        /\ \E h \in free :
            /\ \A k \in free : h <= k
            /\ liveTimers' = cleared \cup {h}
            /\ autoRefreshTimer' = h

\* lines 78-80: refresh() up to its await, with this._view set
StartFetch ==
    /\ started < MaxRefreshes
    /\ ShowPage(GetLoadingHtml, EmptyObject)
    /\ started' = started + 1
    /\ fetches' = fetches \cup {started + 1}
    /\ UNCHANGED <<thrown, shownBy, expired, killed, timedOut>>

\* lines 77-86: refresh() up to its await, or to its end without a view
Refresh ==
    IF view
    THEN StartFetch /\ UNCHANGED <<view, autoRefreshTimer, liveTimers>>
    ELSE /\ ResetAutoRefreshTimer
         /\ UNCHANGED <<layoutVars, view, fetches, started, shownBy, documentVars,
                         expired, killed, timedOut>>

\* lines 41-75: VS Code resolves the view (once per provider)
ResolveWebviewView ==
    /\ ~view
    /\ view' = TRUE
    /\ StartFetch
    /\ ResetAutoRefreshTimer
    /\ disposed' = FALSE
    /\ UNCHANGED <<clickVars, passes, scmVars>>

\* src/src/pogoSCM.ts lines 145-147: the command pogo-vcs.refresh calls
\* refresh() of the history provider
RefreshCommand ==
    /\ Refresh
    /\ disposed' = FALSE
    /\ UNCHANGED <<clickVars, passes, scmVars>>

\* lines 104-106: a tick of a live interval timer
TimerTick ==
    /\ \E h \in liveTimers : Refresh
    /\ UNCHANGED <<disposed, clickVars, passes, scmVars>>

\* lines 80-85: the promise that refresh() number id awaits resolves with
\* graphData; refresh() assigns the document and resets the timer, or the
\* layout pass throws and refresh() rejects
RefreshResumes(id, graphData) ==
    LET page == GetHtmlForWebview(graphData)
    IN  /\ fetches' = fetches \ {id}
        /\ expired' = expired \ {id}
        /\ killed' = killed \ {id}
        /\ timedOut' = timedOut \ {id}
        /\ IF page.kind = "TypeError"
           THEN /\ thrown' = TRUE
                /\ UNCHANGED <<graph, html, shownBy, documentVars,
                               autoRefreshTimer, liveTimers>>
           ELSE /\ ShowPage(page, graphData.graph)
                /\ shownBy' = id
                /\ ResetAutoRefreshTimer
                /\ UNCHANGED thrown
        /\ UNCHANGED <<view, started, disposed, clickVars, passes, scmVars>>

\* lines 196-219: the exec callback of a fetch whose promise is not settled
FetchCallback ==
    \E id \in fetches, r \in ExecResults : RefreshResumes(id, GetPogoGraph(r))

\* line 195 (timeout: 10000): exec's own timeout expires for a fetch whose
\* callback has not run.  exec calls execProcess.kill(): a process that is
\* still running receives the signal and execProcess.killed becomes true; a
\* process that has already exited receives none and killed stays false.
ExecTimeout ==
    \E id \in fetches \ expired, delivered \in BOOLEAN :
        /\ expired' = expired \cup {id}
        /\ killed' = IF delivered THEN killed \cup {id} ELSE killed
        /\ UNCHANGED <<layoutVars, view, autoRefreshTimer, liveTimers, fetches, started,
                       shownBy, timedOut, disposed, documentVars, clickVars, passes,
                       scmVars>>

\* lines 221-228: the 12000 ms timer of a fetch whose promise is not
\* settled; it runs after the 10000 ms timeout of exec
FetchTimeout ==
    \E id \in (fetches \cap expired) \ timedOut :
        IF id \notin killed
        THEN RefreshResumes(id, ErrorData("Error: Command timed out"))
        ELSE /\ timedOut' = timedOut \cup {id}
             /\ UNCHANGED <<layoutVars, view, autoRefreshTimer, liveTimers, fetches,
                            started, shownBy, expired, killed, disposed, documentVars,
                            clickVars, passes, scmVars>>

\* lines 34-39: dispose(): the timer _autoRefreshTimer refers to is cleared
\* and the field is set to undefined; fetches in flight are left alone
Dispose ==
    /\ liveTimers' = IF autoRefreshTimer # 0
                     THEN liveTimers \ {autoRefreshTimer}
                     ELSE liveTimers
    /\ autoRefreshTimer' = 0
    /\ disposed' = TRUE
    /\ UNCHANGED <<layoutVars, view, fetches, started, shownBy, expired, killed,
                   timedOut, documentVars, clickVars, passes, scmVars>>

\* document.querySelector(`circle[data-change-name="..."]`): the first
\* matching circle of the document, 0 if none
QuerySelector(changeName) ==
    IF \E i \in DOMAIN html.nodes : html.nodes[i].dataChangeName = changeName
    THEN CHOOSE i \in DOMAIN html.nodes :
            /\ html.nodes[i].dataChangeName = changeName
            /\ \A k \in DOMAIN html.nodes :
                    html.nodes[k].dataChangeName = changeName => i <= k
    ELSE 0

\* lines 456-461: the set of highlighted circles after handleChangeHover
HandleChangeHover(changeName) ==
    IF QuerySelector(changeName) # 0
    THEN highlighted \cup {QuerySelector(changeName)}
    ELSE highlighted

\* handleChangeUnhover that leaves the class in place
HandleChangeUnhoverKeeps(changeName) == highlighted

\* lines 463-468: the set of highlighted circles after handleChangeUnhover
HandleChangeUnhover(changeName) ==
    IF QuerySelector(changeName) # 0
    THEN highlighted \ {QuerySelector(changeName)}
    ELSE highlighted

\* the pointer enters a panel entry: its onmouseenter attribute, if any, runs
PointerEnter ==
    /\ html.kind = "graph"
    /\ \E j \in DOMAIN html.changeInfos :
        /\ lastEvent' = [lastEvent EXCEPT ![j] = "enter"]
        /\ highlighted' =
              IF html.changeInfos[j].onmouseenter = {}
              THEN highlighted
              ELSE HandleChangeHover(CHOOSE n \in html.changeInfos[j].onmouseenter : TRUE)
    /\ UNCHANGED <<layoutVars, hostVars, clickVars, passes, scmVars>>

\* the pointer leaves a panel entry: its onmouseleave attribute, if any, runs
PointerLeave ==
    /\ html.kind = "graph"
    /\ \E j \in DOMAIN html.changeInfos :
        /\ lastEvent' = [lastEvent EXCEPT ![j] = "leave"]
        /\ highlighted' =
              IF html.changeInfos[j].onmouseleave = {}
              THEN highlighted
              ELSE HandleChangeUnhover(CHOOSE n \in html.changeInfos[j].onmouseleave : TRUE)
    /\ UNCHANGED <<layoutVars, hostVars, clickVars, passes, scmVars>>

\* handleChangeClick that posts its message twice
HandleChangeClickTwice(changeName) == Append(Append(posted, changeName), changeName)

\* lines 449-454: the messages posted after handleChangeClick(changeName)
HandleChangeClick(changeName) == Append(posted, changeName)

\* the user clicks a panel entry: its onclick attribute, if any, runs
ClickEntry ==
    /\ html.kind = "graph"
    /\ Len(clicked) < MaxClicks
    /\ \E j \in DOMAIN html.changeInfos :
        LET entry == html.changeInfos[j]
        IN  /\ clicked' = IF entry.clickable
                          THEN Append(clicked, CHOOSE n \in entry.dataChangeName : TRUE)
                          ELSE clicked
            /\ posted' = IF entry.onclick = {}
                         THEN posted
                         ELSE HandleChangeClick(CHOOSE n \in entry.onclick : TRUE)
            /\ inbox' = inbox \o SubSeq(posted', Len(posted) + 1, Len(posted'))
    /\ UNCHANGED <<layoutVars, hostVars, documentVars, editsStarted, edits, editedAt,
                   passes, scmVars>>

\* lines 109-114: the `pogo edit` commands started after _handleChangeClick
HandleChangeClickHost(changeName) == Append(editsStarted, changeName)

\* lines 58-68: the host receives a changeClick message
ReceiveMessage ==
    /\ view
    /\ inbox # <<>>
    /\ inbox' = Tail(inbox)
    /\ editsStarted' = HandleChangeClickHost(Head(inbox))
    /\ edits' = edits + (Len(editsStarted') - Len(editsStarted))
    /\ UNCHANGED <<layoutVars, hostVars, documentVars, clicked, posted, editedAt,
                   passes, scmVars>>

\* lines 115-127: the exec callback of `pogo edit`; an error or a non-empty
\* stderr shows a message, success does nothing
EditCallback ==
    /\ edits > 0
    /\ edits' = edits - 1
    /\ \E success \in BOOLEAN :
            editedAt' = IF success THEN started ELSE editedAt
    /\ UNCHANGED <<layoutVars, hostVars, documentVars, clicked, posted, inbox, editsStarted,
                   passes, scmVars>>

Init ==
    /\ graph = EmptyObject
    /\ html = NoPage
    /\ thrown = FALSE
    /\ stored = ""
    /\ Constructed

Next ==
    \/ ResolveWebviewView
    \/ TimerTick
    \/ RefreshCommand
    \/ FetchCallback
    \/ PointerEnter
    \/ PointerLeave
    \/ ClickEntry
    \/ ReceiveMessage
    \/ EditCallback

Spec == Init /\ [][Next]_vars

\* Spec with the fairness the timers and the child processes give: a live
\* interval timer keeps ticking (setInterval, line 104), and exec calls back
\* when its process has ended (at the latest after the signal of line 195)
FairSpec == Spec /\ WF_vars(TimerTick) /\ WF_vars(FetchCallback)

(***************************************************************************)
(* SpecFetch: the refresh cycle with the timeouts of `pogo log` and with   *)
(* dispose()                                                               *)
(***************************************************************************)
NextFetch ==
    \/ ResolveWebviewView
    \/ TimerTick
    \/ RefreshCommand
    \/ FetchCallback
    \/ ExecTimeout
    \/ FetchTimeout
    \/ Dispose

SpecFetch == Init /\ [][NextFetch]_vars

(***************************************************************************)
(* SpecPasses: layout passes over one snapshot after the other             *)
(***************************************************************************)
\* most layout passes in one behaviour
MaxPasses == 3

\* LayoutPass with a canvas that never shrinks below that of the document
\* the view shows
LayoutPassKeepsCanvas ==
    /\ Len(passes) < MaxPasses
    /\ \E g \in HostGraphs :
        LET fresh == GetGraphHtml(g)
            page == IF fresh.kind = "TypeError" THEN fresh
                    ELSE [fresh EXCEPT !.svgWidth = Larger(@, html.svgWidth),
                                       !.svgHeight = Larger(@, html.svgHeight)]
        IN  /\ passes' = Append(passes, [snapshot |-> g, output |-> page])
            /\ IF page.kind = "TypeError"
               THEN thrown' = TRUE /\ UNCHANGED <<graph, html>>
               ELSE thrown' = thrown /\ graph' = g /\ html' = page
    /\ UNCHANGED <<hostVars, documentVars, clickVars, scmVars>>

\* line 81 for one snapshot: the document _getGraphHtml returns is assigned,
\* or _getGraphHtml throws and the document stays
LayoutPass ==
    /\ Len(passes) < MaxPasses
    /\ \E g \in HostGraphs :
        LET page == GetGraphHtml(g)
        IN  /\ passes' = Append(passes, [snapshot |-> g, output |-> page])
            /\ IF page.kind = "TypeError"
               THEN thrown' = TRUE /\ UNCHANGED <<graph, html>>
               ELSE thrown' = thrown /\ graph' = g /\ html' = page
    /\ UNCHANGED <<hostVars, documentVars, clickVars, scmVars>>

NextPasses == LayoutPass

SpecPasses == Init /\ [][NextPasses]_vars

(***************************************************************************)
(* SpecSCM: the SCM provider of a workspace (src/src/pogoSCM.ts)           *)
(***************************************************************************)
\* most `pogo describe` processes running at once
MaxDescribes == 2

\* line 167: activation constructs the SCM provider without a history
\* provider, so this._historyProvider is undefined
HistoryProviderOfActivation == FALSE

\* the history provider's variables
historyVars == <<layoutVars, hostVars, documentVars, clickVars, passes>>

\* lines 49-55: loadCurrentDescription up to its await: the values of
\* _isLoading and of loads after the call
LoadCurrentDescription ==
    IF isLoading
    THEN UNCHANGED <<isLoading, loads>>
    ELSE isLoading' = TRUE /\ loads' = loads + 1

\* lines 62-69 with the catch branch leaving the input box as it is
LoadCallbackKeepsTextOnError ==
    /\ loads > 0
    /\ loads' = loads - 1
    /\ \E read \in BOOLEAN :
            inputBox' = IF read THEN Trim(stored) ELSE inputBox
    /\ isLoading' = FALSE
    /\ outcome' = "reloaded"
    /\ UNCHANGED <<stored, describes, initialLoad, historyVars>>

\* lines 58-69 without the finally block after the catch branch
LoadCallbackNoFinally ==
    /\ loads > 0
    /\ loads' = loads - 1
    /\ \E read \in BOOLEAN :
            /\ inputBox' = IF read THEN Trim(stored) ELSE ""
            /\ isLoading' = IF read THEN FALSE ELSE isLoading
    /\ outcome' = "reloaded"
    /\ UNCHANGED <<stored, describes, initialLoad, historyVars>>

\* lines 58-69: `pogo info` ends (or its 5000 ms timeout does): the input
\* box gets the trimmed output, or "" when the command failed
LoadCallback ==
    /\ loads > 0
    /\ loads' = loads - 1
    /\ \E read \in BOOLEAN :
            inputBox' = IF read THEN Trim(stored) ELSE ""
    /\ isLoading' = FALSE
    /\ outcome' = "reloaded"
    /\ UNCHANGED <<stored, describes, initialLoad, historyVars>>

\* line 36: the timer the constructor set runs loadCurrentDescription
InitialLoad ==
    /\ initialLoad
    /\ initialLoad' = FALSE
    /\ LoadCurrentDescription
    /\ UNCHANGED <<inputBox, stored, describes, outcome, historyVars>>

\* lines 141-148: the command pogo-vcs.refresh: refresh() of the SCM
\* provider (lines 107-112), then refresh() of the history provider
RefreshCommandSCM ==
    /\ LoadCurrentDescription
    /\ Refresh
    /\ disposed' = FALSE
    /\ UNCHANGED <<inputBox, stored, describes, outcome, initialLoad, clickVars, passes>>

\* the user edits the text of the input box
UserTypes ==
    /\ \E t \in TypedValues : inputBox' = t
    /\ UNCHANGED <<stored, isLoading, loads, describes, outcome, initialLoad, historyVars>>

\* lines 72-86: the user accepts the input: onInputAccept and
\* updateDescription up to its await
AcceptInput ==
    /\ Len(describes) < MaxDescribes
    /\ LET description == Trim(inputBox)
       IN  describes' = IF description # "" THEN Append(describes, description)
                        ELSE describes
    /\ UNCHANGED <<inputBox, stored, isLoading, loads, outcome, initialLoad, historyVars>>

\* sequence s without its element number k
Without(s, k) == SubSeq(s, 1, k - 1) \o SubSeq(s, k + 1, Len(s))

\* lines 83-104: a `pogo describe` ends.  Success: the description is
\* stored and the history view is refreshed if there is a history provider.
\* Failure: loadCurrentDescription is called and not awaited.
DescribeCallback ==
    \E k \in DOMAIN describes, success \in BOOLEAN :
        /\ describes' = Without(describes, k)
        /\ IF success
           THEN /\ stored' = describes[k]
                /\ outcome' = "updated"
                /\ IF HistoryProviderOfActivation
                   THEN Refresh /\ UNCHANGED disposed
                   ELSE UNCHANGED <<layoutVars, hostVars, documentVars>>
                /\ UNCHANGED <<isLoading, loads>>
           ELSE /\ outcome' = IF isLoading THEN "failedBusy" ELSE "failed"
                /\ LoadCurrentDescription
                /\ UNCHANGED <<stored, layoutVars, hostVars, documentVars>>
        /\ UNCHANGED <<inputBox, initialLoad, clickVars, passes>>

InitSCM ==
    /\ graph = EmptyObject
    /\ html = NoPage
    /\ thrown = FALSE
    /\ stored \in StoredValues
    /\ Constructed

NextSCM ==
    \/ InitialLoad
    \/ RefreshCommandSCM
    \/ LoadCallback
    \/ UserTypes
    \/ AcceptInput
    \/ DescribeCallback
    \/ ResolveWebviewView

\* `pogo info` runs with a timeout of 5000 ms (line 60), `pogo describe`
\* with one of 10000 ms (line 85): both promises settle
SpecSCM ==
    InitSCM /\ [][NextSCM]_vars /\ WF_vars(LoadCallback) /\ WF_vars(DescribeCallback)

(***************************************************************************)
(* Properties of the provider and its webview (checked under Spec)         *)
(***************************************************************************)
\* s is a prefix of t
IsPrefix(s, t) == Len(s) <= Len(t) /\ s = SubSeq(t, 1, Len(s))

\* C4: at most one graph fetch started by refresh() is in flight at any
\* time, whatever the interleaving of the initial load, the timer ticks and
\* the refresh command.
C4_OneFetchInFlight == Cardinality(fetches) <= 1

\* C5: once no fetch is in flight, a view that shows the outcome of a
\* refresh shows that of the most recently started refresh, never that of
\* an earlier refresh whose fetch finished later.
C5_NewestRefreshWins ==
    (fetches = {} /\ ~thrown /\ html.kind \in {"graph", "error"}) => shownBy = started

\* C6: every click on a clickable panel entry posts exactly one changeClick
\* message carrying that entry's change name, the host starts at most one
\* `pogo edit` per message, and neither the click nor the handling of its
\* message nor the end of `pogo edit` changes the document or the snapshot
\* it was rendered from: the document changes only in a step of refresh().
C6_ClickPostsOnce ==
    /\ [](posted = clicked)
    /\ [](IsPrefix(editsStarted, posted) /\ edits <= Len(editsStarted))
    /\ [][(clicked' # clicked \/ posted' # posted \/ inbox' # inbox
            \/ editsStarted' # editsStarted \/ edits' # edits)
          => (html' = html /\ graph' = graph /\ highlighted' = highlighted)]_vars
    /\ [][html' # html => (started' # started \/ fetches' # fetches)]_vars

\* C6 witness: the user has clicked a clickable entry of the document that
\* is still shown, the message was received and `pogo edit` was started
C6_Witness ==
    /\ Rendered
    /\ clicked # <<>>
    /\ \E j \in DOMAIN html.changeInfos :
          html.changeInfos[j].clickable /\ html.changeInfos[j].onclick = {clicked[1]}
    /\ editsStarted = clicked
    /\ inbox = <<>>
    /\ edits = 1

\* the panel entry of circle i is clickable and its last pointer event was
\* a pointer-enter
EnteredLast(i) ==
    \E j \in DOMAIN html.changeInfos :
        /\ html.changeInfos[j].clickable
        /\ html.changeInfos[j].dataChangeName = {html.nodes[i].dataChangeName}
        /\ lastEvent[j] = "enter"

\* C7: a circle is highlighted exactly when the last pointer event on its
\* own clickable panel entry was a pointer-enter; events on other entries
\* and on entries that are not clickable do not count.
C7_HighlightFollowsPointer ==
    /\ highlighted \subseteq DOMAIN html.nodes
    /\ \A i \in DOMAIN html.nodes : (i \in highlighted) <=> EnteredLast(i)

\* C7 witness: one circle is highlighted, the pointer entered an entry that
\* is not clickable last, and it left another clickable entry last
C7_Witness ==
    /\ Rendered
    /\ highlighted # {}
    /\ \E j \in DOMAIN html.changeInfos :
          ~html.changeInfos[j].clickable /\ lastEvent[j] = "enter"
    /\ \E j \in DOMAIN html.changeInfos :
          html.changeInfos[j].clickable /\ lastEvent[j] = "leave"

\* C9: in every rendered snapshot the panel entry of the change named "~"
\* has no description text, no click handler and no hover handlers,
\* whatever its description, conflict_files and is_checked_out are; and no
\* changeClick message carries the name "~".
C9_WorkingNodeInert ==
    /\ Rendered =>
          \A i \in DOMAIN graph.changes :
              graph.changes[i].name = "~" =>
                  /\ html.changeInfos[i].description = [kind |-> "nbsp", text |-> ""]
                  /\ ~html.changeInfos[i].clickable
                  /\ html.changeInfos[i].onclick = {}
                  /\ html.changeInfos[i].onmouseenter = {}
                  /\ html.changeInfos[i].onmouseleave = {}
    /\ \A k \in DOMAIN posted : posted[k] # "~"
    /\ \A k \in DOMAIN inbox : inbox[k] # "~"
    /\ \A k \in DOMAIN editsStarted : editsStarted[k] # "~"

\* C9 witness: the document shows a "~" change that has a description and
\* is not checked out, and a message for another change has been posted
C9_Witness ==
    /\ Rendered
    /\ \E i \in DOMAIN graph.changes :
          /\ graph.changes[i].name = "~"
          /\ graph.changes[i].description # ""
          /\ ~graph.changes[i].is_checked_out
    /\ posted # <<>>

\* the handler attributes of a panel entry that passes changeName to the script
Handlers(changeName) ==
    [onclick |-> {changeName}, onmouseenter |-> {changeName}, onmouseleave |-> {changeName}]
NoHandlers == [onclick |-> {}, onmouseenter |-> {}, onmouseleave |-> {}]
HandlersOf(entry) ==
    [onclick |-> entry.onclick, onmouseenter |-> entry.onmouseenter,
     onmouseleave |-> entry.onmouseleave]

\* the messages a step has added to posted
NewlyPosted == {posted'[k] : k \in (DOMAIN posted') \ (DOMAIN posted)}

\* C15: the panel entry of a change other than "~" is clickable exactly when
\* is_checked_out is false, the click and hover handlers are attached to
\* exactly the clickable entries, and every message that is posted names a
\* change the shown snapshot has as not checked out.
C15_ClickableIffNotCheckedOut ==
    /\ [](Rendered =>
            \A i \in DOMAIN graph.changes :
                LET change == graph.changes[i]
                    entry == html.changeInfos[i]
                IN  /\ change.name # "~" => (entry.clickable <=> ~change.is_checked_out)
                    /\ HandlersOf(entry) =
                         IF entry.clickable THEN Handlers(change.name) ELSE NoHandlers)
    /\ [][\A n \in NewlyPosted :
            /\ Rendered
            /\ \E i \in DOMAIN graph.changes : graph.changes[i].name = n
            /\ \A i \in DOMAIN graph.changes :
                    graph.changes[i].name = n => ~graph.changes[i].is_checked_out]_vars

\* C15 witness: the shown snapshot has a checked-out change other than "~",
\* and a message for another change, which is not checked out, was posted
C15_Witness ==
    /\ Rendered
    /\ \E i \in DOMAIN graph.changes :
          /\ graph.changes[i].name # "~" /\ graph.changes[i].is_checked_out
          /\ ~html.changeInfos[i].clickable /\ html.changeInfos[i].onclick = {}
    /\ posted # <<>>
    /\ \E i \in DOMAIN graph.changes :
          graph.changes[i].name = posted[1] /\ ~graph.changes[i].is_checked_out

ErrorMessages ==
    {"Error executing pogo log", "Pogo error", "Error parsing JSON",
     "Error: Command timed out"}

\* C18: a fetch resolves with exactly one of a graph or an error: a failed
\* command, a non-empty stderr and unparsable output give an error and the
\* error page, any other output gives a graph; the view shows the error page
\* only for such an error; and a fetch whose 12-second timer has run is
\* resolved.
C18_FetchOutcomes ==
    /\ \A r \in ExecResults :
        LET graphData == GetPogoGraph(r)
        IN  IF r.error \/ r.stderr # "" \/ r.stdout.kind = "garbage"
            THEN /\ graphData.error \in ErrorMessages
                 /\ graphData.graph = EmptyObject
                 /\ GetHtmlForWebview(graphData).kind = "error"
            ELSE /\ graphData.error = ""
                 /\ GetHtmlForWebview(graphData).kind # "error"
    /\ html.kind = "error" => html.error \in ErrorMessages
    /\ html.kind = "graph" => html.error = ""
    /\ \A id \in fetches : id \notin timedOut

(***************************************************************************)
(* Properties of the SCM provider (checked under SpecSCM)                  *)
(***************************************************************************)
\* C19: when a description update succeeds while the history view is
\* attached, a refresh of the history view is started.
C19_UpdateRefreshesHistory ==
    [][(Len(describes') < Len(describes) /\ outcome' = "updated" /\ view)
        => (started' = started + 1 /\ html' = GetLoadingHtml)]_vars

\* an update has failed and no description load has completed since
UpdateFailed == outcome \in {"failed", "failedBusy"}

\* C20: once a failed update has been handled, a description load is in
\* flight (the one just started, or the one that was already running), every
\* load that ends sets the input box to the stored description or to "", and
\* so the input box is eventually reset.
C20_FailedUpdateReloads ==
    /\ [](UpdateFailed => (isLoading /\ loads > 0))
    /\ [][loads' < loads => inputBox' \in {Trim(stored), ""}]_vars
    /\ UpdateFailed ~> (outcome = "reloaded")

\* C20 witness: an update failed while a description load was in flight, and
\* the input box still holds a typed text that is not the stored description
C20_Witness ==
    /\ outcome = "failedBusy"
    /\ loads = 1
    /\ inputBox = "new"
    /\ stored = "old"

\* C21: at most one `pogo info` is in flight, _isLoading is true exactly
\* while one is in flight, and a load in flight always ends and resets
\* _isLoading, so the guard of line 50 never blocks later loads forever.
C21_OneLoadInFlight ==
    /\ [](loads <= 1 /\ (isLoading <=> loads = 1))
    /\ isLoading ~> ~isLoading

\* C21 witness: the guard has turned a reload away (an update failed while a
\* load was in flight) after the constructor's own load had been started
C21_Witness ==
    /\ outcome = "failedBusy"
    /\ ~initialLoad
    /\ isLoading
    /\ loads = 1
    /\ describes = <<>>

(***************************************************************************)
(* Properties of the auto-refresh timer (checked under SpecFetch)          *)
(***************************************************************************)
\* C22: at most one interval timer is live, and it is the one
\* _autoRefreshTimer refers to: a timer the field no longer refers to has
\* been cleared.
C22_OneLiveTimer ==
    /\ Cardinality(liveTimers) <= 1
    /\ liveTimers = IF autoRefreshTimer = 0 THEN {} ELSE {autoRefreshTimer}

\* C22 witness: after resolveWebviewView, a second refresh call and
\* dispose(), the first refresh has completed and set a timer while the
\* second is still in flight
C22_Witness ==
    /\ disposed
    /\ shownBy = 1
    /\ fetches = {2}
    /\ autoRefreshTimer # 0

\* C23: once dispose() has been called, and no resolveWebviewView or
\* refresh command has been called since, no interval timer is live (so no
\* timer starts a refresh), also when a refresh was in flight at the call.
C23_NoTimerAfterDispose == disposed => liveTimers = {}

\* C24: every refresh that has started a fetch eventually writes the graph
\* layout or the error page over the loading page and then sets the
\* auto-refresh timer, whatever `pogo log` gave (checked under FairSpec).
C24_RefreshCompletes ==
    \A n \in 1..MaxRefreshes :
        (n \in fetches) ~> (/\ shownBy = n
                            /\ html.kind \in {"graph", "error"}
                            /\ autoRefreshTimer # 0)

====
